---- MODULE Spec2Model ----
(***************************************************************************)
(* A model of botik.py: a Telegram bot that extracts YouTube Shorts IDs    *)
(* from a chat message, fetches each video's statistics, aggregates them   *)
(* and replies with a report.                                              *)
(*                                                                         *)
(* Strings are sequences of one-character strings, so that slicing,        *)
(* matching and parsing are computed and not assumed.  The two Cyrillic    *)
(* sentinel strings of the source are transliterated letter for letter     *)
(* (their lengths, 12 and 15 characters, are those of the source).         *)
(***************************************************************************)
EXTENDS Integers, Sequences, FiniteSets, TLC

VARIABLES
    pc,         \* position of the running handler / pure-function harness
    update,     \* the update being dispatched: [kind, text]
    short_ids,  \* process_shorts: the list extract_short_ids returned
    results,    \* process_shorts: the per-video records, in fetch order
    report,     \* process_shorts: the aggregates and the rendered top lines
    response,   \* fetch_short_data: the API's answer to the call in progress
    outcome,    \* fetch_short_data: what the call did (return or raise)
    chat,       \* what the user's chat received for this update, in order
    error       \* the exception that escaped the handler, or NoError

vars == <<pc, update, short_ids, results, report, response, outcome, chat, error>>

(***************************************************************************)
(* Bounds of the model.                                                    *)
(***************************************************************************)
MaxSegs == 3      \* segments concatenated into one extractor input text
MaxPerm == 3      \* sets up to this size are iterated in every order
MaxOver == 1      \* the bulk texts hold up to MAX_LINKS + MaxOver distinct URLs
MaxRecs == 6      \* records in one aggregated batch
MaxMsgSegs == 2   \* segments of a text message given to the handler

(***************************************************************************)
(* Program constants.                                                      *)
(***************************************************************************)
MAX_LINKS == 100
IdLen == 11
DateLen == 10
TopN == 5

(***************************************************************************)
(* Strings.                                                                *)
(***************************************************************************)
Lower == {"a","b","c","d","e","f","g","h","i","j","k","l","m",
          "n","o","p","q","r","s","t","u","v","w","x","y","z"}
Upper == {"A","B","C","D","E","F","G","H","I","J","K","L","M",
          "N","O","P","Q","R","S","T","U","V","W","X","Y","Z"}
Digits == <<"0","1","2","3","4","5","6","7","8","9">>
DigitSet == {Digits[i] : i \in 1..10}

\* the character class [a-zA-Z0-9_-] of the pattern
IdChars == Lower \cup Upper \cup DigitSet \cup {"_", "-"}

Range(s) == {s[i] : i \in 1..Len(s)}

\* Python's s[:n]
Take(s, n) == SubSeq(s, 1, IF Len(s) < n THEN Len(s) ELSE n)

\* s[i:i+Len(lit)] == lit
HasAt(s, i, lit) ==
    /\ i + Len(lit) - 1 <= Len(s)
    /\ \A k \in 1..Len(lit) : s[i + k - 1] = lit[k]

\* "".join(ss[lo..hi]), by halves
RECURSIVE ConcatIn(_, _, _)
ConcatIn(ss, lo, hi) ==
    IF lo > hi THEN <<>>
    ELSE IF lo = hi THEN ss[lo]
    ELSE LET mid == (lo + hi) \div 2 IN
         ConcatIn(ss, lo, mid) \o ConcatIn(ss, mid + 1, hi)

Concat(ss) == ConcatIn(ss, 1, Len(ss))

\* str(n) for an integer n
RECURSIVE NatToStr(_)
NatToStr(n) == IF n < 10 THEN <<Digits[n + 1]>>
               ELSE NatToStr(n \div 10) \o <<Digits[(n % 10) + 1]>>
IntToStr(n) == IF n < 0 THEN <<"-">> \o NatToStr(0 - n) ELSE NatToStr(n)

(***************************************************************************)
(* extract_short_ids                                                       *)
(***************************************************************************)
SchemeS == <<"h","t","t","p","s",":","/","/">>
Scheme  == <<"h","t","t","p",":","/","/">>
Www     == <<"w","w","w",".">>
Literal == <<"y","o","u","t","u","b","e",".","c","o","m","/","s","h","o","r","t","s","/">>

\* ([a-zA-Z0-9_-]{11}) at position i
IdAt(s, i) ==
    /\ i + IdLen - 1 <= Len(s)
    /\ \A k \in 0..(IdLen - 1) : s[i + k] \in IdChars

\* youtube\.com/shorts/([a-zA-Z0-9_-]{11}) at position i
TailAt(s, i) == HasAt(s, i, Literal) /\ IdAt(s, i + Len(Literal))

\* (?:www\.)? then the rest, at position i: the position of the literal, or 0
WwwAt(s, i) ==
    IF HasAt(s, i, Www) /\ TailAt(s, i + Len(Www)) THEN i + Len(Www)
    ELSE IF TailAt(s, i) THEN i
    ELSE 0

\* (?:https?://)? then the rest, at position i: the position of the literal,
\* or 0 when the pattern does not match at i
MatchAt(s, i) ==
    IF HasAt(s, i, SchemeS) /\ WwwAt(s, i + Len(SchemeS)) # 0
        THEN WwwAt(s, i + Len(SchemeS))
    ELSE IF HasAt(s, i, Scheme) /\ WwwAt(s, i + Len(Scheme)) # 0
        THEN WwwAt(s, i + Len(Scheme))
    ELSE WwwAt(s, i)

\* re.findall(pattern, text) over the start positions lo..hi, left to right,
\* with the scan resuming at position `from` (the end of the previous match):
\* the captured groups of the non-overlapping matches and where the scan
\* resumes.  The range is walked by halves, left half first.
RECURSIVE FindAllIn(_, _, _, _)
FindAllIn(s, lo, hi, from) ==
    IF lo > hi THEN [ids |-> <<>>, from |-> from]
    ELSE IF lo = hi THEN
        LET m == IF lo < from THEN 0 ELSE MatchAt(s, lo)
            g == m + Len(Literal)
        IN  IF m = 0 THEN [ids |-> <<>>, from |-> from]
            ELSE [ids |-> <<SubSeq(s, g, g + IdLen - 1)>>, from |-> g + IdLen]
    ELSE LET mid == (lo + hi) \div 2
             l == FindAllIn(s, lo, mid, from)
             r == FindAllIn(s, mid + 1, hi, l.from)
         IN  [ids |-> l.ids \o r.ids, from |-> r.from]

FindAll(s) == FindAllIn(s, 1, Len(s), 1).ids

\* the elements of s[lo..hi] not in `seen`, each once, in the order first seen
RECURSIVE FirstSeenIn(_, _, _, _)
FirstSeenIn(s, lo, hi, seen) ==
    IF lo > hi THEN <<>>
    ELSE IF lo = hi THEN (IF s[lo] \in seen THEN <<>> ELSE <<s[lo]>>)
    ELSE LET mid == (lo + hi) \div 2
             l == FirstSeenIn(s, lo, mid, seen)
         IN  l \o FirstSeenIn(s, mid + 1, hi, seen \cup Range(l))

FirstSeen(s) == FirstSeenIn(s, 1, Len(s), {})

Rotate(s, k) == SubSeq(s, k + 1, Len(s)) \o SubSeq(s, 1, k)

Perms(S) == {p \in [1..Cardinality(S) -> S] : \A x \in S : \E i \in DOMAIN p : p[i] = x}

\* list(a set of str): CPython iterates the hash table, whose order depends on
\* the per-process hash seed, so the order is a choice.  Sets of at most
\* MaxPerm elements are iterated in every order; larger ones in every rotation
\* of the first-seen order.
SetOrders(found) ==
    LET S == {id \in Range(found) : Len(id) = IdLen}
        f == FirstSeen(SelectSeq(found, LAMBDA id : Len(id) = IdLen))
    IN  IF Cardinality(S) <= MaxPerm THEN Perms(S)
        ELSE {Rotate(f, k) : k \in 0..(Len(f) - 1)}

LimitMutNoCap(ids) == ids

\* [:MAX_LINKS]
Limit(ids) == Take(ids, MAX_LINKS)

\* the lists extract_short_ids(text) may return
extract_short_ids(text) == {Limit(o) : o \in SetOrders(FindAll(text))}

(***************************************************************************)
(* fetch_short_data                                                        *)
(*                                                                         *)
(* A JSON object is a function from its keys; the answer of the API is     *)
(* one of: a transport error of requests.get, a body response.json()       *)
(* cannot decode, a JSON array, or a JSON object.                          *)
(***************************************************************************)
NoTitle     == <<"B","e","z"," ","n","a","z","v","a","n","i","y">>
UnknownDate == <<"D","a","t","a"," ","n","e","i","z","v","e","s","t","n","a">>

\* d.get(key, default)
Get(d, key, default) == IF key \in DOMAIN d THEN d[key] ELSE default

Return(v) == [kind |-> "return", value |-> v]
Raise(type, msg) == [kind |-> "raise", exc |-> [type |-> type, msg |-> msg]]

\* int(s) for a str s: an optional sign and at least one decimal digit
\* (surrounding whitespace and digit-group underscores are not modelled)
RECURSIVE DigitsValue(_)
DigitsValue(s) ==
    IF s = <<>> THEN 0
    ELSE 10 * DigitsValue(SubSeq(s, 1, Len(s) - 1))
         + (CHOOSE d \in 0..9 : Digits[d + 1] = s[Len(s)])

int(s) ==
    LET signed == s # <<>> /\ s[1] \in {"+", "-"}
        body == IF signed THEN Tail(s) ELSE s
    IN  IF body = <<>> \/ ~(Range(body) \subseteq DigitSet)
            THEN Raise("ValueError", "invalid literal for int() with base 10")
        ELSE Return(IF signed /\ s[1] = "-" THEN 0 - DigitsValue(body)
                    ELSE DigitsValue(body))

\* the classes `except Exception` catches, among those the body can raise
ExceptionClasses ==
    {"Timeout", "ConnectionError", "JSONDecodeError", "TypeError", "KeyError",
     "ValueError"}

\* lines 43-55: the record of a found video
FoundRecord(video_id, info) ==
    IF "snippet" \notin DOMAIN info THEN Raise("KeyError", "'snippet'")
    ELSE IF "statistics" \notin DOMAIN info THEN Raise("KeyError", "'statistics'")
    ELSE LET snippet == info["snippet"]
             stats == info["statistics"]
             views == int(Get(stats, "viewCount", <<"0">>))
             likes == int(Get(stats, "likeCount", <<"0">>))
             comments == int(Get(stats, "commentCount", <<"0">>))
         IN  IF views.kind = "raise" THEN views
             ELSE IF likes.kind = "raise" THEN likes
             ELSE IF comments.kind = "raise" THEN comments
             ELSE Return([id |-> video_id,
                          success |-> TRUE,
                          title |-> Get(snippet, "title", NoTitle),
                          date |-> Take(Get(snippet, "publishedAt", UnknownDate), DateLen),
                          views |-> views.value,
                          likes |-> likes.value,
                          comments |-> comments.value])

\* lines 38-55: the body of the try statement
FetchTry(video_id, resp) ==
    IF resp.kind \in {"Timeout", "ConnectionError"} THEN Raise(resp.kind, "request failed")
    ELSE IF resp.kind = "NotJSON" THEN Raise("JSONDecodeError", "Expecting value")
    ELSE IF resp.kind = "JSONArray" THEN Raise("TypeError", "list indices must be integers")
    ELSE LET data == resp.data IN
         IF "items" \notin DOMAIN data THEN Raise("KeyError", "'items'")
         ELSE IF data["items"] = <<>> THEN Return([id |-> video_id, success |-> FALSE])
         ELSE FoundRecord(video_id, data["items"][1])

CaughtMutKeyErrorOnly(exc) == exc.type = "KeyError"

\* line 57: except Exception
Caught(exc) == exc.type \in ExceptionClasses

fetch_short_data(video_id, resp) ==
    LET t == FetchTry(video_id, resp) IN
    IF t.kind = "raise" /\ Caught(t.exc)
        THEN Return([id |-> video_id, success |-> FALSE, error |-> t.exc.msg])
    ELSE t

(***************************************************************************)
(* Answers of the API.                                                     *)
(***************************************************************************)
Restrict(f, K) == [k \in K |-> f[k]]

\* every object with some of the keys of f
Parts(f) == {Restrict(f, K) : K \in SUBSET (DOMAIN f)}

TitlePlain  == <<"C","a","t">>
TitleMarkup == <<"5","*","_","[","]">>
DateFull    == <<"2","0","2","4","-","0","1","-","1","5","T","1","0",":","0","0",":","0","0","Z">>
DateShort   == <<"2","0","2","4">>

Snippets ==
    UNION {Parts([title |-> t, publishedAt |-> d]) :
           t \in {TitlePlain, TitleMarkup}, d \in {DateFull, DateShort}}

Statistics ==
    UNION {Parts([viewCount |-> v, likeCount |-> l, commentCount |-> c]) :
           v \in {<<"0">>, <<"1","2">>, <<"x">>}, l \in {<<"3">>, <<>>}, c \in {<<"7">>}}

Infos == UNION {Parts([snippet |-> sn, statistics |-> st]) : sn \in Snippets, st \in Statistics}

Responses ==
    {[kind |-> k] : k \in {"Timeout", "ConnectionError", "NotJSON", "JSONArray"}}
    \cup {[kind |-> "JSON", data |-> d] :
            d \in {<<>>, [error |-> <<"4","0","3">>], [items |-> <<>>]}}
    \cup {[kind |-> "JSON", data |-> [items |-> <<info>>]] : info \in Infos}

(***************************************************************************)
(* process_shorts, lines 79-95: the aggregation of the records.            *)
(***************************************************************************)
\* sum(r[field] for r in rs)
RECURSIVE Sum(_, _)
Sum(rs, field) == IF rs = <<>> THEN 0 ELSE Head(rs)[field] + Sum(Tail(rs), field)

AverageMutRounded(total, n) == IF n # 0 THEN (2 * total + n) \div (2 * n) ELSE 0

\* total // len(processed) if processed else 0  (// is floor division)
Average(total, n) == IF n # 0 THEN total \div n ELSE 0

InsertMutBeforeEqual(sorted, r) ==
    LET k == Cardinality({i \in 1..Len(sorted) : sorted[i].views > r.views})
    IN  SubSeq(sorted, 1, k) \o <<r>> \o SubSeq(sorted, k + 1, Len(sorted))

\* a stable descending sort places r after the records already placed whose
\* views are at least its own
Insert(sorted, r) ==
    LET k == Cardinality({i \in 1..Len(sorted) : sorted[i].views >= r.views})
    IN  SubSeq(sorted, 1, k) \o <<r>> \o SubSeq(sorted, k + 1, Len(sorted))

RECURSIVE SortFrom(_, _)
SortFrom(rs, sorted) ==
    IF rs = <<>> THEN sorted ELSE SortFrom(Tail(rs), Insert(sorted, Head(rs)))

SortedMutUnsorted(rs) == rs

\* sorted(rs, key=lambda r: r["views"], reverse=True): stable, so records with
\* equal views keep their order in rs
SortedByViews(rs) == SortFrom(rs, <<>>)

Eye == "<eye>"      \* the emoji of the top lines, as one character

\* f"{i+1}. [{r['title']}](https://youtube.com/shorts/{r['id']}) <eye> {r['views']}"
\* with rank = i + 1
TopLine(rank, r) ==
    IntToStr(rank) \o <<".", " ", "[">> \o r.title \o <<"]", "(">>
    \o SchemeS \o Literal \o r.id \o <<")", " ", Eye, " ">> \o IntToStr(r.views)

ProcessedMutNoZeros(rs) == SelectSeq(rs, LAMBDA r : r.success /\ r.views # 0)

\* processed = [r for r in results if r["success"]]
Processed(rs) == SelectSeq(rs, LAMBDA r : r.success)

\* lines 79-95; top_lines holds the lines that "\n".join puts into the report
Aggregate(rs) ==
    LET processed == Processed(rs)
        failed == SelectSeq(rs, LAMBDA r : ~r.success)
        zeros == SelectSeq(processed, LAMBDA r : r.views = 0)
        total_views == Sum(processed, "views")
        total_likes == Sum(processed, "likes")
        total_comments == Sum(processed, "comments")
        top5 == Take(SortedByViews(processed), TopN)
    IN  [rendered |-> TRUE,
         total |-> Len(rs),
         processed |-> Len(processed),
         failed |-> Len(failed),
         zeros |-> Len(zeros),
         total_views |-> total_views,
         total_likes |-> total_likes,
         total_comments |-> total_comments,
         avg_views |-> Average(total_views, Len(processed)),
         avg_likes |-> Average(total_likes, Len(processed)),
         avg_comments |-> Average(total_comments, Len(processed)),
         top5 |-> top5,
         top_lines |-> [i \in 1..Len(top5) |-> TopLine(i, top5[i])]]

\* results = [fetch_short_data(sid) for sid in short_ids], the API answering
\* the i-th call with answers[i]
FetchAll(ids, answers) == [i \in 1..Len(ids) |-> fetch_short_data(ids[i], answers[i]).value]

(***************************************************************************)
(* Input texts of the extractor.                                           *)
(***************************************************************************)
Rep(c, n) == [i \in 1..n |-> c]

IdA == Rep("a", IdLen)
IdB == <<"A","b","3","_","-","x","y","Z","0","1","9">>

\* pieces a message is made of: URLs with and without the optional prefixes,
\* a repeated ID, a run of ID characters one too short and one too long, a
\* separator and a URL of another kind
Segments == <<
    Literal \o IdA,
    SchemeS \o Www \o Literal \o IdA,
    Scheme \o Literal \o IdB,
    Literal \o Rep("c", IdLen - 1),
    Www \o Literal \o Rep("d", IdLen + 1),
    <<" ">>,
    <<"y","o","u","t","u","b","e",".","c","o","m","/","w","a","t","c","h">> >>

\* the texts made of at most n of the pieces segs
SegTexts(segs, n) ==
    UNION {{Concat([i \in 1..k |-> segs[c[i]]]) : c \in [1..k -> 1..Len(segs)]}
           : k \in 0..n}

\* pieces of the messages the handler is given: two URLs, a URL with a run of
\* ID characters one too short, and a separator
MsgSegments == <<Segments[2], Segments[3], Segments[4], Segments[6]>>

\* the i-th of a family of distinct IDs: i in decimal, zero-padded to IdLen
IdOf(i) == LET d == NatToStr(i) IN Rep("0", IdLen - Len(d)) \o d

\* a message of n distinct URLs, one per line
Bulk(n) == Concat([i \in 1..n |-> Literal \o IdOf(i) \o <<"\n">>])

ExtractTexts == SegTexts(Segments, MaxSegs) \cup {Bulk(MAX_LINKS + k) : k \in 0..MaxOver}

(***************************************************************************)
(* State shared by the specifications.                                     *)
(***************************************************************************)
NoError == [type |-> "none"]
NoOutcome == [kind |-> "none"]
NoReport == [rendered |-> FALSE]
NoUpdate == [kind |-> "none"]
NoResponse == [kind |-> "none"]

(***************************************************************************)
(* SpecExtract: extract_short_ids applied to every input text.             *)
(***************************************************************************)
InitExtract ==
    /\ pc = "extract"
    /\ update \in {[kind |-> "text", text |-> t] : t \in ExtractTexts}
    /\ short_ids = <<>>
    /\ results = <<>>
    /\ report = NoReport
    /\ response = NoResponse
    /\ outcome = NoOutcome
    /\ chat = <<>>
    /\ error = NoError

Extract ==
    /\ pc = "extract"
    /\ \E ids \in extract_short_ids(update.text) : short_ids' = ids
    /\ pc' = "extracted"
    /\ UNCHANGED <<update, results, report, response, outcome, chat, error>>

NextExtract == Extract

SpecExtract == InitExtract /\ [][NextExtract]_vars

\* a Shorts URL occurs somewhere in the text
HasShortsUrl(text) == \E i \in 1..Len(text) : TailAt(text, i)

\* the runs of IdLen characters that follow an occurrence of the literal
FollowLiteral(text) ==
    {SubSeq(text, i + Len(Literal), i + Len(Literal) + IdLen - 1) :
        i \in {j \in 1..Len(text) :
                 HasAt(text, j, Literal) /\ j + Len(Literal) + IdLen - 1 <= Len(text)}}

\* C1: extract_short_ids returns only unique 11-character IDs over
\* [a-zA-Z0-9_-], each taken from a Shorts URL of the text, at most MAX_LINKS
\* of them, and the empty list for a text with no Shorts URL.
C1_ExtractUniqueBounded ==
    pc = "extracted" =>
      LET urls == FollowLiteral(update.text) IN
        /\ \A i, j \in 1..Len(short_ids) : short_ids[i] = short_ids[j] => i = j
        /\ \A i \in 1..Len(short_ids) :
              /\ Len(short_ids[i]) = IdLen
              /\ Range(short_ids[i]) \subseteq IdChars
              /\ short_ids[i] \in urls
        /\ Len(short_ids) <= MAX_LINKS
        /\ (~HasShortsUrl(update.text) => short_ids = <<>>)

\* more than MAX_LINKS distinct URLs were cut to MAX_LINKS IDs
C1_WitnessTruncated ==
    /\ pc = "extracted"
    /\ Cardinality(Range(FindAll(update.text))) > MAX_LINKS
    /\ Len(short_ids) = MAX_LINKS

(***************************************************************************)
(* SpecFetch: fetch_short_data applied to every answer of the API.         *)
(***************************************************************************)
InitFetch ==
    /\ pc = "fetch"
    /\ update = NoUpdate
    /\ short_ids \in {<<IdA>>, <<IdB>>}
    /\ results = <<>>
    /\ report = NoReport
    /\ response \in Responses
    /\ outcome = NoOutcome
    /\ chat = <<>>
    /\ error = NoError

Fetch ==
    /\ pc = "fetch"
    /\ outcome' = fetch_short_data(short_ids[1], response)
    /\ pc' = "fetched"
    /\ UNCHANGED <<update, short_ids, results, report, response, chat, error>>

NextFetch == Fetch

SpecFetch == InitFetch /\ [][NextFetch]_vars

\* the video the API found, when it found one
FoundInfo == response.data["items"][1]

HasItems ==
    /\ response.kind = "JSON"
    /\ "items" \in DOMAIN response.data
    /\ response.data["items"] # <<>>

HasInfo == HasItems /\ {"snippet", "statistics"} \subseteq DOMAIN FoundInfo

\* a count the API sent that is not a decimal number
NonNumeric(stats, key) ==
    key \in DOMAIN stats /\ (stats[key] = <<>> \/ ~(Range(stats[key]) \subseteq DigitSet))

BadCount ==
    /\ HasInfo
    /\ \E key \in {"viewCount", "likeCount", "commentCount"} :
          NonNumeric(FoundInfo["statistics"], key)

\* the failures the claim lists: timeout or transport error, a body that is
\* not JSON or not an object, a missing key, a non-numeric count
FetchFailure ==
    \/ response.kind \in {"Timeout", "ConnectionError", "NotJSON", "JSONArray"}
    \/ response.kind = "JSON" /\ "items" \notin DOMAIN response.data
    \/ HasItems /\ ~HasInfo
    \/ BadCount

EmptyItems ==
    /\ response.kind = "JSON"
    /\ "items" \in DOMAIN response.data
    /\ response.data["items"] = <<>>

\* C2: fetch_short_data always returns (never raises) a record with the ID it
\* was given; on every failure of the call or of decoding its answer the
\* record is {id, success: false, error}; on an empty "items" list it is
\* exactly {id, success: false}.
C2_FetchNeverRaises ==
    pc = "fetched" =>
        /\ outcome.kind = "return"
        /\ outcome.value.id = short_ids[1]
        /\ FetchFailure =>
              /\ DOMAIN outcome.value = {"id", "success", "error"}
              /\ outcome.value.success = FALSE
        /\ EmptyItems => outcome.value = [id |-> short_ids[1], success |-> FALSE]
        /\ outcome.value.success = (HasInfo /\ ~BadCount)

\* a non-numeric count was absorbed into a failed record
C2_WitnessBadCount ==
    /\ pc = "fetched"
    /\ BadCount
    /\ outcome.kind = "return"
    /\ outcome.value.success = FALSE
    /\ "error" \in DOMAIN outcome.value

\* C9: a successful record maps the API's fields with defaults: a missing
\* title is NoTitle, a missing publish date is the whole of UnknownDate, a
\* missing count is 0, and a present publish date is cut to DateLen characters.
C9_DefaultsAsClaimed ==
    (pc = "fetched" /\ outcome.kind = "return" /\ outcome.value.success) =>
        LET snippet == FoundInfo["snippet"]
            stats == FoundInfo["statistics"]
            r == outcome.value
        IN  /\ "title" \notin DOMAIN snippet => r.title = NoTitle
            /\ "title" \in DOMAIN snippet => r.title = snippet["title"]
            /\ "publishedAt" \notin DOMAIN snippet => r.date = UnknownDate
            /\ "publishedAt" \in DOMAIN snippet =>
                  r.date = Take(snippet["publishedAt"], DateLen)
            /\ "viewCount" \notin DOMAIN stats => r.views = 0
            /\ "likeCount" \notin DOMAIN stats => r.likes = 0
            /\ "commentCount" \notin DOMAIN stats => r.comments = 0

(***************************************************************************)
(* SpecReport: the aggregation applied to every batch of records, and to   *)
(* the same batch with two neighbouring IDs fetched in the other order.    *)
(***************************************************************************)
Json(info) == [kind |-> "JSON", data |-> [items |-> <<info>>]]

Stats(v, l, c) == [viewCount |-> v, likeCount |-> l, commentCount |-> c]

\* answers of the API to the fetches of a batch: a video that is gone, a
\* video nobody viewed, and videos with views
BatchResponses ==
    {[kind |-> "JSON", data |-> [items |-> <<>>]],
     Json([snippet |-> [title |-> TitlePlain], statistics |-> [likeCount |-> <<"3">>]]),
     Json([snippet |-> [title |-> TitleMarkup, publishedAt |-> DateFull],
           statistics |-> Stats(<<"7">>, <<"2">>, <<"1">>)]),
     Json([snippet |-> << >>, statistics |-> Stats(<<"1","2">>, <<"0">>, <<"4">>)])}

InitReport ==
    /\ pc = "aggregate"
    /\ update = NoUpdate
    /\ \E n \in 1..MaxRecs :
          /\ short_ids = [i \in 1..n |-> IdOf(i)]
          /\ \E answers \in [1..n -> BatchResponses] :
                results = FetchAll(short_ids, answers)
    /\ report = NoReport
    /\ response = NoResponse
    /\ outcome = NoOutcome
    /\ chat = <<>>
    /\ error = NoError

BuildReport ==
    /\ pc = "aggregate"
    /\ report' = Aggregate(results)
    /\ pc' = "reported"
    /\ UNCHANGED <<update, short_ids, results, response, outcome, chat, error>>

Swap(s, i) == [k \in 1..Len(s) |-> IF k = i THEN s[i + 1] ELSE IF k = i + 1 THEN s[i] ELSE s[k]]

\* the same batch with the i-th and (i+1)-th IDs listed, fetched and collected
\* in the other order, every ID keeping its record
Reorder ==
    /\ pc = "reported"
    /\ \E i \in 1..(Len(results) - 1) :
          /\ short_ids' = Swap(short_ids, i)
          /\ results' = Swap(results, i)
    /\ report' = Aggregate(results')
    /\ pc' = "reordered"
    /\ UNCHANGED <<update, response, outcome, chat, error>>

NextReport == BuildReport \/ Reorder

SpecReport == InitReport /\ [][NextReport]_vars

Reported == pc \in {"reported", "reordered"}

\* positions of the processed records in the batch
ProcessedAt == {i \in 1..Len(results) : results[i].success}

RECURSIVE SumAt(_, _)
SumAt(I, field) ==
    IF I = {} THEN 0
    ELSE LET i == CHOOSE j \in I : TRUE IN results[i][field] + SumAt(I \ {i}, field)

\* C3: processed and failed partition the records, zeros counts the processed
\* records without views, and the totals are the sums over all processed
\* records, those without views included.
C3_CountsPartition ==
    Reported =>
        /\ report.processed = Cardinality(ProcessedAt)
        /\ report.failed = Cardinality({i \in 1..Len(results) : ~results[i].success})
        /\ report.processed + report.failed = Len(results)
        /\ report.total = Len(results)
        /\ report.zeros = Cardinality({i \in ProcessedAt : results[i].views = 0})
        /\ report.total_views = SumAt(ProcessedAt, "views")
        /\ report.total_likes = SumAt(ProcessedAt, "likes")
        /\ report.total_comments = SumAt(ProcessedAt, "comments")

\* a batch with a failed record, a record without views and records with views
C3_WitnessMixed ==
    /\ Reported
    /\ report.failed > 0
    /\ report.zeros > 0
    /\ report.processed > report.zeros
    /\ report.total_likes > 0

IsFloorOf(avg, total, n) == avg * n <= total /\ total < (avg + 1) * n

\* C4: each average is the floor of its total divided by the number of
\* processed records, and 0 when no record was processed.
C4_AveragesFloor ==
    Reported =>
        LET n == Cardinality(ProcessedAt) IN
        IF n = 0
            THEN report.avg_views = 0 /\ report.avg_likes = 0 /\ report.avg_comments = 0
        ELSE /\ IsFloorOf(report.avg_views, SumAt(ProcessedAt, "views"), n)
             /\ IsFloorOf(report.avg_likes, SumAt(ProcessedAt, "likes"), n)
             /\ IsFloorOf(report.avg_comments, SumAt(ProcessedAt, "comments"), n)

\* every fetch of a batch of several IDs failed, and the averages are 0
C4_WitnessAllFailed ==
    /\ Reported
    /\ Len(results) > 1
    /\ ProcessedAt = {}
    /\ report.avg_views = 0

\* the position in the batch of the record with this ID
PosOf(id) == CHOOSE i \in 1..Len(results) : results[i].id = id

\* C5: top5 holds min(TopN, processed) processed records by descending views;
\* no processed record left out has more views than one listed; among equal
\* views the record earlier in the batch is ranked first, and listed first
\* when only one of them fits.
C5_TopFive ==
    Reported =>
        LET top == report.top5
            inTop == {PosOf(top[k].id) : k \in 1..Len(top)}
        IN  /\ Len(top) = (IF Cardinality(ProcessedAt) < TopN
                             THEN Cardinality(ProcessedAt) ELSE TopN)
            /\ \A k \in 1..Len(top) : top[k] = results[PosOf(top[k].id)] /\ top[k].success
            /\ \A k, l \in 1..Len(top) :
                  k < l => \/ top[k].views > top[l].views
                           \/ /\ top[k].views = top[l].views
                              /\ PosOf(top[k].id) < PosOf(top[l].id)
            /\ \A i \in ProcessedAt \ inTop, k \in 1..Len(top) :
                  \/ results[i].views < top[k].views
                  \/ results[i].views = top[k].views /\ PosOf(top[k].id) < i

\* more than TopN processed records, with equal views on both sides of the cut
C5_WitnessTieAtCut ==
    /\ Reported
    /\ report.processed > TopN
    /\ \E i \in ProcessedAt :
          /\ \A k \in 1..Len(report.top5) : report.top5[k].id # results[i].id
          /\ results[i].views = report.top5[TopN].views

SameNumbers(a, b) ==
    /\ a.total = b.total
    /\ a.processed = b.processed
    /\ a.failed = b.failed
    /\ a.zeros = b.zeros
    /\ a.total_views = b.total_views
    /\ a.total_likes = b.total_likes
    /\ a.total_comments = b.total_comments
    /\ a.avg_views = b.avg_views
    /\ a.avg_likes = b.avg_likes
    /\ a.avg_comments = b.avg_comments

ViewsOf(rs) == [k \in 1..Len(rs) |-> rs[k].views]

DistinctViews(rs) ==
    \A i, j \in 1..Len(rs) :
        (rs[i].success /\ rs[j].success /\ rs[i].views = rs[j].views) => i = j

\* C10 as claimed: fetching the same IDs, with the same outcomes, in another
\* order leaves every aggregation result, the top-5 listing included, as it was.
C10_OrderIndependentAsClaimed ==
    [][pc' = "reordered" => report' = report]_vars

\* C10 as amended: the counts, totals and averages and the view counts of the
\* top-5 listing do not depend on the order; the listing itself does not
\* depend on it when no two processed records have equal views.
C10_OrderIndependentAmended ==
    [][pc' = "reordered" =>
          /\ SameNumbers(report, report')
          /\ ViewsOf(report'.top5) = ViewsOf(report.top5)
          /\ DistinctViews(results) =>
                report'.top5 = report.top5 /\ report'.top_lines = report.top_lines]_vars

\* a batch of more than TopN records, two of them with equal views, reordered
C10_WitnessReorderedTie ==
    /\ pc = "reordered"
    /\ report.processed > TopN
    /\ ~DistinctViews(results)

(***************************************************************************)
(* Spec: the bot.  The dispatcher hands each update to its handler; every  *)
(* awaited Telegram call either succeeds or raises; an exception that      *)
(* leaves a handler is given to error_handler, and polling goes on.        *)
(* chat lists the calls that succeeded for the update in progress.  The    *)
(* report is kept as the values interpolated into its template; the        *)
(* render-time stamp of line 97 is left out.                               *)
(***************************************************************************)
Sent(what) == [op |-> "send", what |-> what]

Welcome     == Sent("welcome")                     \* line 62, with the start button
NoLinks     == Sent("no_links")                    \* line 73
Ack         == Sent("ack")                         \* line 76
Generic     == Sent("generic_error")               \* line 130
DeleteAck   == [op |-> "delete", what |-> "ack"]   \* line 119
AnswerQuery == [op |-> "answer", what |-> "callback_query"]   \* line 65
EditPrompt  == [op |-> "edit", what |-> "prompt"]  \* line 66

\* lines 113-125: the report, sent as legacy Markdown with the restart button
ReportMsg(rep) ==
    [op |-> "send", what |-> "report", parse_mode |-> "Markdown",
     button |-> "new_parse", report |-> rep]

Raised(where) == [type |-> "TelegramError", at |-> where, handled |-> "pending"]

\* the updates the three handlers are registered for (lines 148-150): the
\* /start command, a press of the button, a message with a (non-empty) text
Updates ==
    {[kind |-> "start"], [kind |-> "callback", data |-> "new_parse"]}
    \cup {[kind |-> "text", text |-> t] : t \in SegTexts(MsgSegments, MaxMsgSegs) \ {<<>>}}

\* update.message: set for a command and a text message, None for a button press
HasMessage(u) == u.kind \in {"start", "text"}

\* answers of the API while a message is handled
HandlerResponses ==
    {[kind |-> "Timeout"],
     [kind |-> "JSON", data |-> [items |-> <<>>]],
     Json([snippet |-> [title |-> TitlePlain], statistics |-> [viewCount |-> <<"0">>]]),
     Json([snippet |-> [title |-> TitleMarkup, publishedAt |-> DateFull],
           statistics |-> Stats(<<"7">>, <<"2">>, <<"1">>)])}

Init ==
    /\ pc = "idle"
    /\ update = NoUpdate
    /\ short_ids = <<>>
    /\ results = <<>>
    /\ report = NoReport
    /\ response = NoResponse
    /\ outcome = NoOutcome
    /\ chat = <<>>
    /\ error = NoError

\* an awaited call that appends `event` to the chat and goes on at `next`, or
\* raises out of the handler
Await(event, where, next) ==
    \/ /\ chat' = Append(chat, event)
       /\ pc' = next
       /\ error' = error
    \/ /\ chat' = chat
       /\ pc' = "error_handler"
       /\ error' = Raised(where)

\* lines 148-152: run_polling hands the next update to its handler
Dispatch ==
    /\ pc = "idle"
    /\ \E u \in Updates :
          /\ update' = u
          /\ pc' = CASE u.kind = "start" -> "start"
                     [] u.kind = "callback" -> "button_answer"
                     [] u.kind = "text" -> "shorts"
    /\ short_ids' = <<>>
    /\ results' = <<>>
    /\ report' = NoReport
    /\ chat' = <<>>
    /\ error' = NoError
    /\ UNCHANGED <<response, outcome>>

\* start, lines 60-62
Start ==
    /\ pc = "start"
    /\ Await(Welcome, "start", "idle")
    /\ UNCHANGED <<update, short_ids, results, report, response, outcome>>

\* new_parse_button, line 65
ButtonAnswer ==
    /\ pc = "button_answer"
    /\ Await(AnswerQuery, "new_parse_button", "button_edit")
    /\ UNCHANGED <<update, short_ids, results, report, response, outcome>>

\* new_parse_button, line 66
ButtonEdit ==
    /\ pc = "button_edit"
    /\ Await(EditPrompt, "new_parse_button", "idle")
    /\ UNCHANGED <<update, short_ids, results, report, response, outcome>>

\* process_shorts, lines 69-76: extraction, then the "no links" reply and
\* return, or the acknowledgment
ShortsExtract ==
    /\ pc = "shorts"
    /\ \E ids \in extract_short_ids(update.text) :
          /\ short_ids' = ids
          /\ IF ids = <<>>
                THEN Await(NoLinks, "process_shorts", "idle")
                ELSE Await(Ack, "process_shorts", "fetch")
    /\ UNCHANGED <<update, results, report, response, outcome>>

\* process_shorts, lines 78-117: the fetches, one after the other, and the
\* report; nothing is awaited in between
ShortsFetch ==
    /\ pc = "fetch"
    /\ \E answers \in [1..Len(short_ids) -> HandlerResponses] :
          results' = FetchAll(short_ids, answers)
    /\ report' = Aggregate(results')
    /\ pc' = "delete"
    /\ UNCHANGED <<update, short_ids, response, outcome, chat, error>>

ShortsDeleteMutSkipped ==
    /\ pc = "delete"
    /\ pc' = "send"
    /\ UNCHANGED <<update, short_ids, results, report, response, outcome, chat, error>>

\* process_shorts, line 119: await reply.delete()
ShortsDelete ==
    /\ pc = "delete"
    /\ Await(DeleteAck, "process_shorts", "send")
    /\ UNCHANGED <<update, short_ids, results, report, response, outcome>>

\* process_shorts, lines 120-125: the report is sent
ShortsSend ==
    /\ pc = "send"
    /\ Await(ReportMsg(report), "process_shorts", "idle")
    /\ UNCHANGED <<update, short_ids, results, report, response, outcome>>

\* error_handler, lines 127-130: the exception is logged; the generic message
\* goes to update.message when there is one.  An exception of that reply is
\* logged by the dispatcher.
ErrorHandler ==
    /\ pc = "error_handler"
    /\ IF HasMessage(update)
          THEN \/ /\ chat' = Append(chat, Generic)
                  /\ error' = [error EXCEPT !.handled = "replied"]
               \/ /\ chat' = chat
                  /\ error' = [error EXCEPT !.handled = "reply_failed"]
          ELSE /\ chat' = chat
               /\ error' = [error EXCEPT !.handled = "no_message"]
    /\ pc' = "idle"
    /\ UNCHANGED <<update, short_ids, results, report, response, outcome>>

Next ==
    \/ Dispatch
    \/ Start
    \/ ButtonAnswer
    \/ ButtonEdit
    \/ ShortsExtract
    \/ ShortsFetch
    \/ ShortsDelete
    \/ ShortsSend
    \/ ErrorHandler

Spec == Init /\ [][Next]_vars

\* the handler of the update in progress has finished and nothing escaped it
Completed == pc = "idle" /\ update # NoUpdate /\ error = NoError

IsPrefix(a, b) == Len(a) <= Len(b) /\ a = SubSeq(b, 1, Len(a))

\* the chat without the generic message error_handler may have added
Replies ==
    IF chat # <<>> /\ chat[Len(chat)] = Generic
        THEN SubSeq(chat, 1, Len(chat) - 1)
    ELSE chat

\* C6 as claimed: every text message is answered by the acknowledgment,
\* followed by the "no links" message or by the report with its button, the
\* acknowledgment being deleted before the report is sent.
C6_AlwaysAcknowledgedAsClaimed ==
    (Completed /\ update.kind = "text") =>
        chat \in {<<Ack, NoLinks>>, <<Ack, DeleteAck, ReportMsg(report)>>}

\* C6 as amended: a text message without a Shorts link gets the "no links"
\* message as its only reply, and no acknowledgment; a message with a link
\* gets the acknowledgment, then the deletion of the acknowledgment, then the
\* report with its button, in this order, so that a report is only ever sent
\* after the acknowledgment was deleted.  A Telegram call that raises ends the
\* sequence where it stands.
C6_RepliesInOrder ==
    update.kind = "text" =>
        LET full == IF HasShortsUrl(update.text)
                        THEN <<Ack, DeleteAck, ReportMsg(report)>>
                    ELSE <<NoLinks>>
        IN  /\ IsPrefix(Replies, full)
            /\ Completed => chat = full

\* a message with links was acknowledged, and the acknowledgment deleted
\* before the report went out
C6_WitnessReportSent ==
    /\ Completed
    /\ update.kind = "text"
    /\ chat = <<Ack, DeleteAck, ReportMsg(report)>>
    /\ report.processed > 0

\* C7 as claimed: whenever an exception leaves a handler, error_handler runs,
\* the user is sent the generic message, and the bot goes on polling.  (A
\* failure of the generic reply itself is not held against the claim.)
C7_UserToldOfEveryErrorAsClaimed ==
    (pc = "idle" /\ error # NoError /\ error.handled # "reply_failed") =>
        /\ error.handled = "replied"
        /\ chat # <<>>
        /\ chat[Len(chat)] = Generic

\* the characters legacy Markdown gives a meaning to
MarkupChars == {"*", "_", "[", "]"}

\* a text with every markup character preceded by a backslash
RECURSIVE Escaped(_)
Escaped(text) ==
    IF text = <<>> THEN <<>>
    ELSE (IF Head(text) \in MarkupChars THEN <<"\\", Head(text)>> ELSE <<Head(text)>>)
         \o Escaped(Tail(text))

\* C8 as claimed: in every report sent, each top line carries its video's
\* title escaped for the Markdown the message is sent as.
C8_TitlesEscapedAsClaimed ==
    \A k \in 1..Len(chat) :
        (chat[k].what = "report") =>
            LET rep == chat[k].report IN
            \A i \in 1..Len(rep.top5) :
                rep.top_lines[i]
                    = TopLine(i, [rep.top5[i] EXCEPT !.title = Escaped(rep.top5[i].title)])

====
